---- MODULE Spec2Model ----
(***************************************************************************)
(* Question generation / validation / selection pipeline of                *)
(* demo_content.py: generate_contextual_questions and the functions it     *)
(* calls (generate_questions_with_llm, verify_column_references,           *)
(* validate_questions_with_llm, test_questions_against_semantic_model,     *)
(* select_best_questions).  The external text-generation service is the    *)
(* environment: every response it can give is an input chosen with \E.     *)
(***************************************************************************)
EXTENDS Integers, Sequences, FiniteSets, TLC

(***************************************************************************)
(* Bounds of the model.                                                    *)
(***************************************************************************)
\* longest array of candidate questions one generation response carries
MaxGen == 2
\* longest valid_question_numbers list one validation verdict carries
MaxVerdict == 2
\* most mandatory target questions of one run
MaxTargets == 2
\* largest num_questions a run is called with
MaxNumQuestions == 2

(***************************************************************************)
(* Program constants.                                                      *)
(***************************************************************************)
MAX_RETRIES == 3
\* "need at least 3 advanced ANALYTICS and 3 search"
MIN_ADVANCED_ANALYTICS == 3
MIN_SEARCH == 3
\* select_best_questions(..., min_advanced=3)
MIN_ADVANCED == 3
\* failed_questions[:3] in the st.error message
MAX_SHOWN_FAILED == 3
\* advanced_analytics[:min(3, len(advanced_analytics))] in the final selection
ADVANCED_SLOTS == 3
\* the retry loop asks for "at least 2 in each category" and requests 3 - count
MIN_PER_CATEGORY == 2
RETRY_FILL == 3

(***************************************************************************)
(* Python list helpers.                                                    *)
(***************************************************************************)
\* s[:k], with Python's meaning of a negative k (drop the last -k elements)
Prefix(s, k) ==
    LET n == IF k >= 0 THEN (IF k < Len(s) THEN k ELSE Len(s))
             ELSE (IF Len(s) + k > 0 THEN Len(s) + k ELSE 0)
    IN  SubSeq(s, 1, n)

\* s[k:], with Python's meaning of a negative k (keep the last -k elements)
Suffix(s, k) ==
    LET m == IF k >= 0 THEN (IF k < Len(s) THEN k ELSE Len(s))
             ELSE (IF Len(s) + k > 0 THEN Len(s) + k ELSE 0)
    IN  SubSeq(s, m + 1, Len(s))

\* int(a * 0.t) for the tenths t the code uses: truncation toward zero
IntTenths(a, t) ==
    IF a >= 0 THEN (a * t) \div 10 ELSE -(((-a) * t) \div 10)

Min(a, b) == IF a < b THEN a ELSE b
Max(a, b) == IF a > b THEN a ELSE b

\* all sequences over S of length at most n
BoundedSeq(S, n) == UNION {[1..k -> S] : k \in 0..n}

\* [q['text'] for q in qs]
Texts(qs) == [i \in 1..Len(qs) |-> qs[i].text]

\* the elements of a list, as a set
Elems(s) == {s[i] : i \in 1..Len(s)}

(***************************************************************************)
(* Schema context and column names.                                        *)
(***************************************************************************)
ColumnNames == {"Revenue", "revenue", "REVENUE", "REGION", "region", "GHOST", "ghost"}

\* str.upper() on the column names of the model
Upper(c) ==
    CASE c \in {"Revenue", "revenue", "REVENUE"} -> "REVENUE"
      [] c \in {"REGION", "region"} -> "REGION"
      [] OTHER -> "GHOST"

\* one table with two columns: the rich_table_contexts of a run that has them
SchemaContext ==
    << [name |-> "SALES", columns |-> << [name |-> "Revenue"], [name |-> "REGION"] >>] >>

\* rich_table_contexts is optional: None / [] is the empty sequence
ContextChoices == { <<>>, SchemaContext }

\* all_columns of verify_column_references: upper-cased names of every table
AllColumns(ctxs) ==
    UNION { { Upper(ctxs[t].columns[c].name) : c \in 1..Len(ctxs[t].columns) } :
            t \in 1..Len(ctxs) }

(***************************************************************************)
(* Question records.  has_cols says whether the dict has the key           *)
(* 'referenced_columns', has_text whether it has the key 'text'; source is *)
(* "none" while the dict has no 'source'.                                  *)
(***************************************************************************)
Question(text, difficulty, category, has_cols, cols) ==
    [text |-> text, has_text |-> TRUE, difficulty |-> difficulty,
     category |-> category, has_cols |-> has_cols, referenced_columns |-> cols,
     referenced_tables |-> <<>>, source |-> "none"]

\* the candidate questions the generation service can put in its array
QAdv    == Question("A", "advanced", "analytics", TRUE, <<"revenue">>)
QGhost  == Question("G", "advanced", "analytics", TRUE, <<"REGION", "ghost">>)
QSearch == Question("S", "intermediate", "search", FALSE, <<>>)
QBasic  == Question("B", "basic", "analytics", FALSE, <<>>)
GenUniverse == {QAdv, QGhost, QSearch}

\* an analytics question whose columns exist and whose referenced_tables
\* names a table the schema does not have
QGhostTable ==
    [Question("X", "advanced", "analytics", TRUE, <<"REVENUE">>)
        EXCEPT !.referenced_tables = <<"MISSING_TABLE">>]

\* a search question that declares a column the schema does not have
QSearchGhost == Question("SG", "basic", "search", TRUE, <<"ghost">>)

\* a JSON object of the generation response that names its text "question":
\* it has none of the keys 'text', 'difficulty', 'category'
QNoText == [Question("N/A", "none", "none", FALSE, <<>>) EXCEPT !.has_text = FALSE]

\* every question record of the model
QuestionUniverse == GenUniverse \cup {QBasic}

\* the texts a user gives as mandatory target questions, in the order given
TargetPool == <<"T1", "T2", "T3">>

\* demo_data['target_questions'] of a run: the first k texts of the pool
TargetLists == { Prefix(TargetPool, k) : k \in 0..MaxTargets }

\* target_q_dicts: {"text": q, "difficulty": "intermediate", "category": "analytics"}
TargetDicts(target_questions_list) ==
    [i \in 1..Len(target_questions_list) |->
        Question(target_questions_list[i], "intermediate", "analytics", FALSE, <<>>)]

IsSearch(q) == q.category = "search"
IsAnalytics(q) == q.category = "analytics"
NotSearch(q) == q.category # "search"
IsAdvancedAnalytics(q) == q.difficulty = "advanced" /\ q.category = "analytics"

\* len([q for q in qs if ...])
CountCategory(qs, category) ==
    Len(SelectSeq(qs, LAMBDA q : q.category = category))

CountDifficulty(qs, difficulty) ==
    Len(SelectSeq(qs, LAMBDA q : q.difficulty = difficulty))

CountAdvancedAnalytics(qs) == Len(SelectSeq(qs, IsAdvancedAnalytics))

(***************************************************************************)
(* verify_column_references                                                *)
(***************************************************************************)
ColumnsExist(q, ctxs) ==
    \A i \in 1..Len(q.referenced_columns) :
        Upper(q.referenced_columns[i]) \in AllColumns(ctxs)

verify_column_references(questions, ctxs) ==
    IF ctxs = <<>> \/ questions = <<>>
    THEN questions
    ELSE SelectSeq(questions, LAMBDA q : (~q.has_cols) \/ ColumnsExist(q, ctxs))

(***************************************************************************)
(* generate_questions_with_llm.  A response of the generation service is   *)
(* one of: the call raises; the text holds no [...] literal; the literal   *)
(* is not JSON; its elements are not objects; an array of question dicts;  *)
(* an array of one object that is not a question dict ("textless").        *)
(***************************************************************************)
GenFailureKinds == {"raise", "noarray", "badjson", "notrecords"}

GenResponses ==
    { [kind |-> k, items |-> <<>>] : k \in GenFailureKinds } \cup
    { [kind |-> "array", items |-> s] : s \in BoundedSeq(GenUniverse, MaxGen) } \cup
    { [kind |-> "textless", items |-> <<QNoText>>] }

\* for q in questions_data: q['source'] = 'ai'
TagSource(qs) == [i \in 1..Len(qs) |-> [qs[i] EXCEPT !.source = "ai"]]

generate_questions_with_llm(resp, ctxs) ==
    IF resp.kind \in {"array", "textless"}
    THEN verify_column_references(TagSource(resp.items), ctxs)
    ELSE <<>>

(***************************************************************************)
(* validate_questions_with_llm.  A response of the validation service is   *)
(* one of: the call raises; empty text; text that is not JSON; JSON that   *)
(* is not an object; an object whose valid_question_numbers is not a list  *)
(* of integers; an object without the key; an object with a list nums.     *)
(* fallback_used = FALSE stands for the key being absent from debug_info.  *)
(***************************************************************************)
FallbackKinds == {"raise", "empty", "unparseable", "nonobject", "badverdict"}

ValidationResponses(n) ==
    { [kind |-> k, nums |-> <<>>] : k \in FallbackKinds \cup {"nokey"} } \cup
    { [kind |-> "verdict", nums |-> s] : s \in BoundedSeq(0..(n + 1), MaxVerdict) }

\* the response of a round in which the service is not called
NoResponse == [kind |-> "nocall", nums |-> <<>>]

NoDebug ==
    [present |-> FALSE, total_questions |-> 0, validation_success |-> FALSE,
     validated_count |-> 0, fallback_used |-> FALSE]

\* a fallback that returns the analytics questions only
ValidatorFallbackAnalyticsOnly(analytics_questions, validated_search, debug_info) ==
    [out |-> analytics_questions,
     debug |-> [debug_info EXCEPT !.validation_success = FALSE,
                                  !.fallback_used = TRUE,
                                  !.validated_count = Len(analytics_questions)]]

\* the three fallback branches (empty response, JSONDecodeError, except
\* Exception) differ in error_message only, which the model leaves out
ValidatorFallback(analytics_questions, validated_search, debug_info) ==
    LET combined == analytics_questions \o validated_search
    IN  [out |-> combined,
         debug |-> [debug_info EXCEPT !.validation_success = FALSE,
                                      !.fallback_used = TRUE,
                                      !.validated_count = Len(combined)]]

\* a verdict read as 0-indexed positions
ValidatedAnalyticsZeroIndexed(analytics_questions, valid_nums) ==
    LET inRange == SelectSeq(valid_nums,
                       LAMBDA num : 0 <= num /\ num < Len(analytics_questions))
    IN  [i \in 1..Len(inRange) |-> analytics_questions[inRange[i] + 1]]

\* for num in valid_nums: if 1 <= num <= len(analytics_questions): append
ValidatedAnalytics(analytics_questions, valid_nums) ==
    LET inRange == SelectSeq(valid_nums,
                       LAMBDA num : 1 <= num /\ num <= Len(analytics_questions))
    IN  [i \in 1..Len(inRange) |-> analytics_questions[inRange[i]]]

\* a combination that leaves the search questions out
CombineAnalyticsOnly(validated_analytics, validated_search) == validated_analytics

\* line 2052: combined = validated_analytics + validated_search
Combine(validated_analytics, validated_search) ==
    validated_analytics \o validated_search

validate_questions_with_llm(questions, ctxs, resp) ==
    LET debug_info == [NoDebug EXCEPT !.present = TRUE,
                                      !.total_questions = Len(questions)]
        search_questions == SelectSeq(questions, IsSearch)
        analytics_questions == SelectSeq(questions, NotSearch)
    IN  IF questions = <<>> \/ ctxs = <<>>
        THEN [out |-> questions,
              debug |-> [debug_info EXCEPT !.validation_success = TRUE,
                                           !.validated_count = Len(questions)]]
        ELSE IF analytics_questions = <<>>
        THEN [out |-> questions,
              debug |-> [debug_info EXCEPT !.validation_success = TRUE,
                                           !.validated_count = Len(questions)]]
        ELSE CASE resp.kind = "empty" ->
                    ValidatorFallback(analytics_questions, search_questions, debug_info)
               [] resp.kind = "unparseable" ->
                    ValidatorFallback(analytics_questions, search_questions, debug_info)
               [] resp.kind \in {"raise", "nonobject", "badverdict"} ->
                    ValidatorFallback(analytics_questions, search_questions, debug_info)
               [] OTHER ->
                    LET valid_nums == IF resp.kind = "verdict" THEN resp.nums ELSE <<>>
                        combined == Combine(ValidatedAnalytics(analytics_questions,
                                                               valid_nums),
                                            search_questions)
                    IN  [out |-> combined,
                         debug |-> [debug_info EXCEPT !.validation_success = TRUE,
                                                      !.validated_count = Len(combined)]]

\* line 1850, outside every try: f"{i}. {q['text']}" for each analytics
\* question raises KeyError when the dict has no 'text'
ValidatorRaises(questions, ctxs) ==
    /\ questions # <<>>
    /\ ctxs # <<>>
    /\ \E i \in 1..Len(questions) : NotSearch(questions[i]) /\ ~questions[i].has_text

\* the responses the service can give to one validator call on these questions
ResponsesFor(questions, ctxs) ==
    IF questions = <<>> \/ ctxs = <<>> \/ SelectSeq(questions, NotSearch) = <<>>
    THEN {NoResponse}
    ELSE ValidationResponses(Len(SelectSeq(questions, NotSearch)))

(***************************************************************************)
(* test_questions_against_semantic_model.  semantic_model_info is "none"   *)
(* (None or an empty dict), "noview" (a dict without 'view_name') or       *)
(* "view".  answers[i] is what the service does for questions[i]: it       *)
(* returns a row whose CAN_ANSWER is a text (a sequence of characters), it *)
(* returns no row, or the call raises.  affirmative records what the text  *)
(* says; the code sees the text only.                                      *)
(***************************************************************************)
SemanticInfos == {"none", "noview", "view"}

Answer(kind, text, affirmative) ==
    [kind |-> kind, text |-> text, affirmative |-> affirmative]

\* "YES", "yes", "NO" and "No, yesterday" (the model has no data of yesterday)
AnswerTexts ==
    { Answer("text", <<"Y", "E", "S">>, TRUE),
      Answer("text", <<"y", "e", "s">>, TRUE),
      Answer("text", <<"N", "O">>, FALSE),
      Answer("text", <<"N", "o", ",", " ", "y", "e", "s", "t", "e", "r", "d", "a", "y">>,
             FALSE) }

Answers ==
    AnswerTexts \cup {Answer("norow", <<>>, FALSE), Answer("raises", <<>>, FALSE)}

\* search questions are not asked
NotAsked == Answer("notasked", <<>>, FALSE)

\* one answer per question
AnswersFor(questions) ==
    { a \in [1..Len(questions) -> Answers \cup {NotAsked}] :
        \A i \in 1..Len(questions) :
            IsSearch(questions[i]) <=> a[i] = NotAsked }

\* str.upper() on the characters of the answer texts
UpperChar(c) ==
    CASE c = "y" -> "Y" [] c = "e" -> "E" [] c = "s" -> "S" [] c = "o" -> "O"
      [] c = "t" -> "T" [] c = "r" -> "R" [] c = "d" -> "D" [] c = "a" -> "A"
      [] OTHER -> c

UpperText(text) == [i \in 1..Len(text) |-> UpperChar(text[i])]

\* Python's "sub in text" on strings
Contains(sub, text) ==
    \E k \in 0..(Len(text) - Len(sub)) :
        \A i \in 1..Len(sub) : text[k + i] = sub[i]

\* response = result[0]['CAN_ANSWER'].upper() if result else 'NO'
ResponseOf(answer) ==
    IF answer.kind = "text" THEN UpperText(answer.text) ELSE <<"N", "O">>

\* 'YES' in response, when the call did not raise
SaysYes(answer) ==
    /\ answer.kind \in {"text", "norow"}
    /\ Contains(<<"Y", "E", "S">>, ResponseOf(answer))

\* the positions 1..n in increasing order: the order of "for q_dict in questions"
Indices(n) == [i \in 1..n |-> i]

test_questions_against_semantic_model(questions, semantic_model_info, answers) ==
    IF semantic_model_info # "view"
    THEN [answerable |-> questions, failed |-> <<>>, skipped |-> TRUE]
    ELSE LET ok == SelectSeq(Indices(Len(questions)),
                       LAMBDA i : IsSearch(questions[i]) \/ SaysYes(answers[i]))
             bad == SelectSeq(Indices(Len(questions)),
                       LAMBDA i : ~IsSearch(questions[i]) /\ ~SaysYes(answers[i]))
         IN  [answerable |-> [k \in 1..Len(ok) |-> questions[ok[k]]],
              failed |-> [k \in 1..Len(bad) |->
                            [question |-> questions[bad[k]].text,
                             reason |-> IF answers[bad[k]].kind = "raises"
                                        THEN "error testing question"
                                        ELSE "cannot generate SQL"]],
              skipped |-> FALSE]

(***************************************************************************)
(* select_best_questions                                                   *)
(***************************************************************************)
select_best_questions(questions, target_count, min_advanced) ==
    IF Len(questions) <= target_count
    THEN questions
    ELSE
    LET advanced0 == SelectSeq(questions, LAMBDA q : q.difficulty = "advanced")
        intermediate0 == SelectSeq(questions, LAMBDA q : q.difficulty = "intermediate")
        basic == SelectSeq(questions, LAMBDA q : q.difficulty = "basic")
        selected1 == Prefix(advanced0, min_advanced)
        short == Len(selected1) < min_advanced
        needed1 == min_advanced - Len(selected1)
        \* short: fill the advanced slots with intermediate questions; the
        \* advanced list is left whole.  Otherwise: advanced = advanced[min_advanced:]
        selected2 == IF short THEN selected1 \o Prefix(intermediate0, needed1)
                     ELSE selected1
        intermediate == IF short THEN Suffix(intermediate0, needed1) ELSE intermediate0
        advanced == IF short THEN advanced0 ELSE Suffix(advanced0, min_advanced)
        remaining_slots == target_count - Len(selected2)
        remaining_advanced_count ==
            Min(Len(advanced), Max(1, IntTenths(remaining_slots, 1)))
        remaining_intermediate_count ==
            Min(Len(intermediate), IntTenths(remaining_slots, 6))
        remaining_basic_count ==
            Min(Len(basic), remaining_slots - remaining_advanced_count
                                - remaining_intermediate_count)
        selected3 == selected2 \o Prefix(advanced, remaining_advanced_count)
                               \o Prefix(intermediate, remaining_intermediate_count)
                               \o Prefix(basic, remaining_basic_count)
        remaining == Suffix(advanced, remaining_advanced_count)
                        \o Suffix(intermediate, remaining_intermediate_count)
                        \o Suffix(basic, remaining_basic_count)
        selected4 == IF Len(selected3) < target_count
                     THEN selected3 \o Prefix(remaining, target_count - Len(selected3))
                     ELSE selected3
    IN  Prefix(selected4, target_count)

(***************************************************************************)
(* generate_contextual_questions: the final selection (balanced            *)
(* truncation) and the inclusion of the validated target questions.        *)
(***************************************************************************)
FinalSelection(validated_questions, num_questions) ==
    IF Len(validated_questions) <= num_questions
    THEN validated_questions
    ELSE
    LET analytics_qs == SelectSeq(validated_questions, IsAnalytics)
        search_qs == SelectSeq(validated_questions, IsSearch)
        target_analytics == IntTenths(num_questions, 7)
        target_search == num_questions - target_analytics
        advanced_analytics == SelectSeq(analytics_qs, LAMBDA q : q.difficulty = "advanced")
        intermediate_analytics ==
            SelectSeq(analytics_qs, LAMBDA q : q.difficulty = "intermediate")
        basic_analytics == SelectSeq(analytics_qs, LAMBDA q : q.difficulty = "basic")
        sel_adv == Prefix(advanced_analytics, Min(ADVANCED_SLOTS, Len(advanced_analytics)))
        slots1 == target_analytics - Len(sel_adv)
        sel_int == IF slots1 > 0 THEN sel_adv \o Prefix(intermediate_analytics, slots1)
                   ELSE sel_adv
        slots2 == target_analytics - Len(sel_int)
        sel_bas == IF slots1 > 0 /\ slots2 > 0
                   THEN sel_int \o Prefix(basic_analytics, slots2)
                   ELSE sel_int
        selected_analytics == IF Len(analytics_qs) > target_analytics
                              THEN sel_bas
                              ELSE Prefix(analytics_qs, target_analytics)
        selected_search == Prefix(search_qs, target_search)
        combined == selected_analytics \o selected_search
        used_texts == Elems(Texts(combined))
        unused_analytics == SelectSeq(analytics_qs, LAMBDA q : q.text \notin used_texts)
    IN  IF Len(combined) < num_questions
        THEN combined \o Prefix(unused_analytics, num_questions - Len(combined))
        ELSE combined

\* "Phase 0: Include validated target questions in final set" and the return
IncludeTargets(validated_target_questions, validated_questions, num_questions) ==
    IF validated_target_questions # <<>>
    THEN LET target_texts == Elems(Texts(validated_target_questions))
             non_target_questions ==
                 SelectSeq(validated_questions, LAMBDA q : q.text \notin target_texts)
         IN  Prefix(validated_target_questions \o non_target_questions, num_questions)
    ELSE Prefix(validated_questions, num_questions)

(***************************************************************************)
(* State.                                                                  *)
(*   pc                    position of the run in generate_contextual_     *)
(*                         questions ("idle" before the call, "done" after *)
(*                         a return, "raised" after the raise)             *)
(*   target_questions_list, rich_table_contexts, semantic_model_info,      *)
(*   num_questions         the arguments of the call                       *)
(*   validated_target_questions, questions, new_questions,                 *)
(*   validated_questions, validation_debug, retry_attempt, missing         *)
(*                         the locals of the call; questions and           *)
(*                         new_questions are emptied after their last read *)
(*   session_state         st.session_state keys the pipeline writes       *)
(*   error_log             number of error_handler.log_error calls         *)
(*   st_error              the failed questions shown by st.error          *)
(*   result, raised        what the call returned / the exception raised   *)
(*   target_rejected       history: target texts the validator's output    *)
(*                         of the target round does not contain            *)
(*   fallback_rounds       history: validator calls of this run that took  *)
(*                         a fallback branch                               *)
(*   gen_malformed         history: generation rounds of this run whose    *)
(*                         response was not an array of question dicts     *)
(*   gen_requests          history: the generation requests of this run,   *)
(*                         each with its round and the is_retry and        *)
(*                         existing_questions arguments of its prompt      *)
(*   rejected_texts        history: texts of the questions the validator   *)
(*                         was given in a generation round of this run and *)
(*                         did not return                                  *)
(*   call                  the argument/result record of a function        *)
(*                         applied on its own                              *)
(***************************************************************************)
VARIABLES pc, target_questions_list, rich_table_contexts, semantic_model_info,
          num_questions, validated_target_questions, questions, new_questions,
          validated_questions, validation_debug,
          retry_attempt, missing, session_state, error_log,
          st_error, result, raised, target_rejected, fallback_rounds,
          gen_malformed, gen_requests, rejected_texts, call

inputVars == <<target_questions_list, rich_table_contexts, semantic_model_info,
               num_questions>>
localVars == <<validated_target_questions, questions, new_questions,
               validated_questions, validation_debug, retry_attempt, missing>>
outVars == <<session_state, error_log, st_error, result, raised>>
histVars == <<target_rejected, fallback_rounds, gen_malformed, gen_requests,
              rejected_texts>>
pipeVars == <<pc, inputVars, localVars, outVars, histVars>>
vars == <<pipeVars, call>>

\* validation_debug as line 682 builds it; used_fallback = FALSE and
\* final_question_count = 0 until lines 791-799 set the keys
ValidationDebug0 ==
    [present |-> TRUE, attempt_1 |-> NoDebug, attempt_2 |-> NoDebug,
     retry_triggered |-> FALSE, final_pass_rate |-> <<0, 1>>,
     combined_pool_size |-> 0, after_selection |-> 0,
     used_fallback |-> FALSE, final_question_count |-> 0]

NoValidationDebug == [ValidationDebug0 EXCEPT !.present = FALSE]

NoSemanticResults ==
    [present |-> FALSE, answerable |-> <<>>, failed |-> <<>>, skipped |-> FALSE,
     no_semantic_model |-> FALSE]

NoFiltered == [present |-> FALSE, failed_count |-> 0, passed_count |-> 0]

NoDistribution ==
    [present |-> FALSE, basic |-> 0, intermediate |-> 0, advanced |-> 0,
     analytics |-> 0, search |-> 0, targeted_generation_triggered |-> FALSE,
     targeted_issue |-> "None", targeted_result |-> "None"]

\* a fresh st.session_state: none of the pipeline's keys is set
SessionState0 ==
    [target_question_validation_debug |-> NoDebug,
     question_validation_debug |-> NoValidationDebug,
     semantic_model_test_results |-> NoSemanticResults,
     semantic_test_filtered |-> NoFiltered,
     question_distribution |-> NoDistribution]

NoMissing == [advanced_analytics |-> FALSE, search |-> FALSE]
NoError ==
    [raised |-> FALSE, error |-> "none", failed_count |-> 0, total |-> 0,
     names |-> <<>>]

\* the KeyError of line 1850, which generate_contextual_questions lets through
KeyErrorText == [NoError EXCEPT !.raised = TRUE, !.error = "KeyError"]
NoCall == [fn |-> "none"]

PipelineIdle ==
    /\ pc = "idle"
    /\ target_questions_list = <<>>
    /\ rich_table_contexts = <<>>
    /\ semantic_model_info = "none"
    /\ num_questions = 1
    /\ validated_target_questions = <<>>
    /\ questions = <<>>
    /\ new_questions = <<>>
    /\ validated_questions = <<>>
    /\ validation_debug = ValidationDebug0
    /\ retry_attempt = 0
    /\ missing = NoMissing
    /\ session_state = SessionState0
    /\ error_log = 0
    /\ st_error = <<>>
    /\ result = <<>>
    /\ raised = NoError
    /\ target_rejected = <<>>
    /\ fallback_rounds = {}
    /\ gen_malformed = {}
    /\ gen_requests = {}
    /\ rejected_texts = {}

Init == PipelineIdle /\ call = NoCall

(***************************************************************************)
(* generate_contextual_questions, lines 585-655: entry and the validation  *)
(* of the mandatory target questions.                                      *)
(***************************************************************************)
StartRun ==
    /\ pc = "idle"
    /\ target_questions_list' \in TargetLists
    /\ rich_table_contexts' \in ContextChoices
    /\ semantic_model_info' \in SemanticInfos
    /\ num_questions' \in 1..MaxNumQuestions
    /\ pc' = IF rich_table_contexts' # <<>> /\ target_questions_list' # <<>>
             THEN "validate_targets" ELSE "generate_initial"
    /\ UNCHANGED <<localVars, outVars, histVars, call>>

\* q for q in target_questions_list if q not in [vq['text'] for vq in validated_targets]
FailedQuestions(targets, validated_targets) ==
    SelectSeq(targets, LAMBDA q : q \notin Elems(Texts(validated_targets)))

\* the Exception of line 647: its message embeds the two counts and no text
TargetError(failed_count, total) ==
    [raised |-> TRUE, error |-> "Exception", failed_count |-> failed_count,
     total |-> total, names |-> <<>>]

ValidateTargets ==
    /\ pc = "validate_targets"
    /\ \E resp \in ResponsesFor(TargetDicts(target_questions_list), rich_table_contexts) :
        LET r == validate_questions_with_llm(TargetDicts(target_questions_list),
                                             rich_table_contexts, resp)
            validated_targets == r.out
            failed_questions == FailedQuestions(target_questions_list, validated_targets)
        IN  /\ target_rejected' = failed_questions
            /\ fallback_rounds' = IF r.debug.fallback_used
                                  THEN fallback_rounds \cup {"target"}
                                  ELSE fallback_rounds
            /\ IF Len(validated_targets) < Len(target_questions_list)
               THEN /\ raised' = TargetError(Len(target_questions_list)
                                               - Len(validated_targets),
                                             Len(target_questions_list))
                    /\ st_error' = Prefix(failed_questions, MAX_SHOWN_FAILED)
                    /\ pc' = "raised"
                    /\ UNCHANGED <<validated_target_questions, session_state>>
               ELSE /\ validated_target_questions' = validated_targets
                    /\ session_state' =
                         [session_state EXCEPT !.target_question_validation_debug = r.debug]
                    /\ pc' = "generate_initial"
                    /\ UNCHANGED <<raised, st_error>>
    /\ UNCHANGED <<inputVars, questions, new_questions, validated_questions,
                   validation_debug, retry_attempt, missing, error_log, result,
                   gen_malformed, gen_requests, rejected_texts, call>>

\* the generation requests so far, with the one of this round
Requested(round, is_retry, existing_questions) ==
    gen_requests \cup {[round |-> round, is_retry |-> is_retry,
                        existing_questions |-> existing_questions]}

\* the texts rejected so far, with those of questions the validator did not
\* return
Rejected(submitted, returned) ==
    rejected_texts \cup (Elems(Texts(submitted)) \ Elems(Texts(returned)))

\* the generation rounds so far whose response was malformed
Malformed(round, resp) ==
    IF resp.kind = "array" THEN gen_malformed ELSE gen_malformed \cup {round}

(***************************************************************************)
(* lines 661-695 and 1164: the initial generation round.                   *)
(***************************************************************************)
GenerateInitial ==
    /\ pc = "generate_initial"
    /\ \E resp \in GenResponses :
        LET qs == generate_questions_with_llm(resp, rich_table_contexts)
        IN  /\ validation_debug' = ValidationDebug0
            /\ gen_malformed' = Malformed("initial", resp)
            /\ gen_requests' = Requested("initial", FALSE, <<>>)
            /\ IF rich_table_contexts # <<>> /\ qs # <<>>
               THEN /\ questions' = qs
                    /\ pc' = "validate_1"
                    /\ UNCHANGED result
               ELSE /\ questions' = qs
                    /\ result' = Prefix(qs, num_questions)
                    /\ pc' = "done"
    /\ UNCHANGED <<inputVars, validated_target_questions, new_questions,
                   validated_questions, retry_attempt, missing, session_state,
                   error_log, st_error, raised, target_rejected, fallback_rounds,
                   rejected_texts, call>>

(***************************************************************************)
(* lines 788-803: the final pass rate and the debug payload.               *)
(* final_pass_rate is the pair <<numerator, denominator>>.                 *)
(***************************************************************************)
WithPassRate(vd, validated, target_count) ==
    LET final_attempt == IF vd.attempt_2.present THEN vd.attempt_2 ELSE vd.attempt_1
    IN  IF final_attempt.present /\ final_attempt.fallback_used
        THEN [vd EXCEPT !.final_pass_rate = <<0, 1>>,
                        !.used_fallback = TRUE,
                        !.final_question_count = Len(validated)]
        ELSE [vd EXCEPT !.final_pass_rate = IF target_count > 0
                                            THEN <<Len(validated), target_count>>
                                            ELSE <<0, 1>>,
                        !.used_fallback = FALSE,
                        !.final_question_count = Len(validated)]

(***************************************************************************)
(* lines 695-718: validation of the initial round.  The call of line 701   *)
(* is outside every try: an error of the validator ends the run.           *)
(***************************************************************************)
Validate1Raises ==
    /\ pc = "validate_1"
    /\ ValidatorRaises(questions, rich_table_contexts)
    /\ raised' = KeyErrorText
    /\ pc' = "raised"
    /\ UNCHANGED <<inputVars, localVars, session_state, error_log, st_error,
                   result, histVars, call>>

Validate1 ==
    /\ pc = "validate_1"
    /\ ~ValidatorRaises(questions, rich_table_contexts)
    /\ \E resp \in ResponsesFor(questions, rich_table_contexts) :
        LET r == validate_questions_with_llm(questions, rich_table_contexts, resp)
            vd1 == [validation_debug EXCEPT !.attempt_1 = r.debug]
            target_count == num_questions
        IN  /\ validated_questions' = r.out
            /\ rejected_texts' = Rejected(questions, r.out)
            /\ questions' = <<>>
            /\ fallback_rounds' = IF r.debug.fallback_used
                                  THEN fallback_rounds \cup {"attempt_1"}
                                  ELSE fallback_rounds
            /\ IF Len(r.out) < target_count
               THEN /\ validation_debug' = [vd1 EXCEPT !.retry_triggered = TRUE]
                    /\ pc' = "generate_2"
                    /\ UNCHANGED session_state
               ELSE /\ validation_debug' = WithPassRate(vd1, r.out, target_count)
                    /\ session_state' =
                         [session_state EXCEPT !.question_validation_debug =
                                                   validation_debug']
                    /\ pc' = "semantic_test"
    /\ UNCHANGED <<inputVars, validated_target_questions, new_questions,
                   retry_attempt, missing, error_log, st_error, result, raised,
                   target_rejected, gen_malformed, gen_requests, call>>

(***************************************************************************)
(* lines 718-803: the second attempt (is_retry=True, existing_questions =  *)
(* validated_questions), the combined pool and select_best_questions.      *)
(***************************************************************************)
Generate2 ==
    /\ pc = "generate_2"
    /\ \E resp \in GenResponses :
        /\ new_questions' = generate_questions_with_llm(resp, rich_table_contexts)
        /\ gen_malformed' = Malformed("attempt_2", resp)
        /\ gen_requests' = Requested("attempt_2", TRUE, validated_questions)
    /\ pc' = "validate_2"
    /\ UNCHANGED <<inputVars, validated_target_questions, questions,
                   validated_questions, validation_debug,
                   retry_attempt, missing, outVars, target_rejected,
                   fallback_rounds, rejected_texts, call>>

\* the call of line 751 is outside every try as well
Validate2Raises ==
    /\ pc = "validate_2"
    /\ ValidatorRaises(new_questions, rich_table_contexts)
    /\ raised' = KeyErrorText
    /\ pc' = "raised"
    /\ UNCHANGED <<inputVars, localVars, session_state, error_log, st_error,
                   result, histVars, call>>

Validate2 ==
    /\ pc = "validate_2"
    /\ ~ValidatorRaises(new_questions, rich_table_contexts)
    /\ \E resp \in ResponsesFor(new_questions, rich_table_contexts) :
        LET r == validate_questions_with_llm(new_questions, rich_table_contexts, resp)
            target_count == num_questions
            combined_questions == validated_questions \o r.out
            final_questions == select_best_questions(combined_questions,
                                                     target_count, MIN_ADVANCED)
            vd2 == [validation_debug EXCEPT
                       !.attempt_2 = r.debug,
                       !.combined_pool_size = Len(combined_questions),
                       !.after_selection = Len(final_questions)]
        IN  /\ validated_questions' = final_questions
            /\ rejected_texts' = Rejected(new_questions, r.out)
            /\ new_questions' = <<>>
            /\ fallback_rounds' = IF r.debug.fallback_used
                                  THEN fallback_rounds \cup {"attempt_2"}
                                  ELSE fallback_rounds
            /\ validation_debug' = WithPassRate(vd2, final_questions, target_count)
            /\ session_state' =
                 [session_state EXCEPT !.question_validation_debug = validation_debug']
    /\ pc' = "semantic_test"
    /\ UNCHANGED <<inputVars, validated_target_questions, questions,
                   retry_attempt, missing, error_log, st_error, result, raised,
                   target_rejected, gen_malformed, gen_requests, call>>

(***************************************************************************)
(* lines 805-864: the mandatory semantic model test.  The except branch    *)
(* of line 833 is not modelled: test_questions_against_semantic_model      *)
(* catches every error of its service calls itself.                        *)
(***************************************************************************)
SemanticTest ==
    /\ pc = "semantic_test"
    /\ \E answers \in (IF semantic_model_info = "view"
                       THEN AnswersFor(validated_questions) ELSE {<<>>}) :
        IF semantic_model_info # "none"
        THEN LET res == test_questions_against_semantic_model(
                            validated_questions, semantic_model_info, answers)
                 stored == [present |-> TRUE, answerable |-> res.answerable,
                            failed |-> res.failed, skipped |-> res.skipped,
                            no_semantic_model |-> FALSE]
             IN  IF res.failed # <<>>
                 THEN /\ validated_questions' = res.answerable
                      /\ session_state' =
                           [session_state EXCEPT
                               !.semantic_test_filtered =
                                   [present |-> TRUE,
                                    failed_count |-> Len(res.failed),
                                    passed_count |-> Len(res.answerable)],
                               !.semantic_model_test_results = stored]
                 ELSE /\ UNCHANGED validated_questions
                      /\ session_state' =
                           [session_state EXCEPT
                               !.semantic_model_test_results = stored]
        ELSE /\ validated_questions' = <<>>
             /\ session_state' =
                  [session_state EXCEPT
                      !.semantic_model_test_results =
                          [present |-> TRUE, answerable |-> <<>>,
                           failed |-> validated_questions,
                           skipped |-> TRUE, no_semantic_model |-> TRUE]]
    /\ retry_attempt' = 0
    /\ pc' = "retry_loop"
    /\ UNCHANGED <<inputVars, validated_target_questions, questions, new_questions,
                   validation_debug, missing, error_log, st_error, result, raised, histVars, call>>

(***************************************************************************)
(* lines 861-981: the retry loop.  accumulated_questions is                *)
(* validated_questions.  The name get_question_generation_prompt is bound  *)
(* by the import statement of line 1031, which makes it a local variable   *)
(* of the whole function; the call of line 905 comes before any binding,   *)
(* so it raises UnboundLocalError in every round.  The except branch of    *)
(* line 970 logs the error and continues: lines 919-968 never run.         *)
(***************************************************************************)
NeedsMore(accumulated_questions) ==
    \/ CountCategory(accumulated_questions, "analytics") < MIN_PER_CATEGORY
    \/ CountCategory(accumulated_questions, "search") < MIN_PER_CATEGORY

\* num_analytics_needed + num_search_needed of lines 886-888
TotalNeeded(accumulated_questions) ==
    LET analytics_count == CountCategory(accumulated_questions, "analytics")
        search_count == CountCategory(accumulated_questions, "search")
    IN  (IF analytics_count < MIN_PER_CATEGORY
         THEN Max(RETRY_FILL - analytics_count, 0) ELSE 0)
      + (IF search_count < MIN_PER_CATEGORY
         THEN Max(RETRY_FILL - search_count, 0) ELSE 0)

\* the loop condition without the budget of line 866
LoopContinuesNoBudget ==
    /\ NeedsMore(validated_questions)
    /\ TotalNeeded(validated_questions) # 0

LoopContinues ==
    /\ retry_attempt < MAX_RETRIES
    /\ NeedsMore(validated_questions)
    /\ TotalNeeded(validated_questions) # 0

RetryRound ==
    /\ pc = "retry_loop"
    /\ LoopContinues
    /\ retry_attempt' = retry_attempt + 1
    /\ error_log' = error_log + 1
    /\ UNCHANGED <<pc, inputVars, validated_target_questions, questions,
                   new_questions, validated_questions,
                   validation_debug, missing, session_state,
                   st_error, result, raised, histVars, call>>

(***************************************************************************)
(* lines 1086-1162: the distribution payload, the final selection, the     *)
(* target questions and the return.                                        *)
(***************************************************************************)
\* the payload without the outcome of the distribution check
DistributionNoFlag(qs, missing_any, targeted_success) ==
    [present |-> TRUE,
     basic |-> CountDifficulty(qs, "basic"),
     intermediate |-> CountDifficulty(qs, "intermediate"),
     advanced |-> CountDifficulty(qs, "advanced"),
     analytics |-> CountCategory(qs, "analytics"),
     search |-> CountCategory(qs, "search"),
     targeted_generation_triggered |-> FALSE,
     targeted_issue |-> "None",
     targeted_result |-> "None"]

Distribution(qs, missing_any, targeted_success) ==
    [present |-> TRUE,
     basic |-> CountDifficulty(qs, "basic"),
     intermediate |-> CountDifficulty(qs, "intermediate"),
     advanced |-> CountDifficulty(qs, "advanced"),
     analytics |-> CountCategory(qs, "analytics"),
     search |-> CountCategory(qs, "search"),
     targeted_generation_triggered |-> missing_any,
     targeted_issue |-> IF missing_any THEN "Distribution incomplete" ELSE "None",
     targeted_result |-> IF missing_any THEN targeted_success ELSE "None"]

Finish(final_validated, missing_any, targeted_success) ==
    /\ session_state' =
         [session_state EXCEPT
             !.question_distribution =
                 Distribution(final_validated, missing_any, targeted_success)]
    /\ result' = IncludeTargets(validated_target_questions,
                                FinalSelection(final_validated, num_questions),
                                num_questions)
    /\ pc' = "done"

(***************************************************************************)
(* lines 980-1028: leaving the loop and the distribution check; without a  *)
(* gap the run goes on to the return.                                      *)
(***************************************************************************)
LoopExit ==
    /\ pc = "retry_loop"
    /\ ~LoopContinues
    /\ LET advanced_analytics_count == CountAdvancedAnalytics(validated_questions)
           search_count == CountCategory(validated_questions, "search")
           missing_advanced_analytics == advanced_analytics_count < MIN_ADVANCED_ANALYTICS
           missing_search == search_count < MIN_SEARCH
       IN  /\ missing' = [advanced_analytics |-> missing_advanced_analytics,
                          search |-> missing_search]
           /\ IF missing_advanced_analytics \/ missing_search
              THEN /\ pc' = "targeted_round"
                   /\ UNCHANGED <<session_state, result>>
              ELSE Finish(validated_questions, FALSE, "None")
    /\ UNCHANGED <<inputVars, validated_target_questions, questions, new_questions,
                   validated_questions, validation_debug, retry_attempt,
                   error_log, st_error, raised, histVars, call>>

(***************************************************************************)
(* lines 1029-1162: the targeted gap-filling round (is_retry=False,        *)
(* existing_questions = validated_questions) and the return.  The round's  *)
(* questions go to the validator without verify_column_references and      *)
(* without the semantic test, and the validator's debug record is dropped. *)
(***************************************************************************)
TargetedRound ==
    /\ pc = "targeted_round"
    /\ \E resp \in GenResponses :
        /\ gen_malformed' = Malformed("targeted", resp)
        /\ gen_requests' = Requested("targeted", FALSE, validated_questions)
        /\ CASE resp.kind = "array" ->
                   LET targeted_questions == TagSource(resp.items)
                   IN  \E vresp \in ResponsesFor(targeted_questions, rich_table_contexts) :
                         LET r == validate_questions_with_llm(
                                      targeted_questions, rich_table_contexts, vresp)
                             validated_targeted == r.out
                         IN  /\ validated_questions' =
                                    validated_questions \o validated_targeted
                             /\ rejected_texts' = Rejected(targeted_questions,
                                                            validated_targeted)
                             /\ fallback_rounds' = IF r.debug.fallback_used
                                                   THEN fallback_rounds \cup {"targeted"}
                                                   ELSE fallback_rounds
                             /\ Finish(validated_questions', TRUE,
                                       "Added targeted questions")
             [] resp.kind = "noarray" ->
                   /\ Finish(validated_questions, TRUE,
                             "Could not parse targeted questions")
                   /\ UNCHANGED <<validated_questions, fallback_rounds, rejected_texts>>
             [] OTHER ->
                   /\ Finish(validated_questions, TRUE,
                             "Targeted question generation failed")
                   /\ UNCHANGED <<validated_questions, fallback_rounds, rejected_texts>>
    /\ UNCHANGED <<inputVars, validated_target_questions, questions, new_questions,
                   validation_debug, retry_attempt, missing, error_log, st_error,
                   raised, target_rejected, call>>

Next ==
    \/ StartRun
    \/ ValidateTargets
    \/ GenerateInitial
    \/ Validate1Raises
    \/ Validate1
    \/ Generate2
    \/ Validate2Raises
    \/ Validate2
    \/ SemanticTest
    \/ RetryRound
    \/ LoopExit
    \/ TargetedRound

Spec == Init /\ [][Next]_vars

(***************************************************************************)
(* validate_questions_with_llm applied on its own: every list of at most   *)
(* MaxGen + 1 candidate or target questions, with and without a schema     *)
(* context, against every response of the validation service.              *)
(***************************************************************************)
ValidatorInputs ==
    BoundedSeq(QuestionUniverse \cup {QSearchGhost, TargetDicts(<<"T1">>)[1]},
               MaxGen + 1)

InitValidate ==
    /\ PipelineIdle
    /\ \E qs \in ValidatorInputs, ctxs \in ContextChoices :
         \E resp \in ValidationResponses(Len(SelectSeq(qs, NotSearch))) :
            call = [fn |-> "validate_questions_with_llm", stage |-> "called",
                    questions |-> qs, ctxs |-> ctxs, resp |-> resp,
                    out |-> <<>>, debug |-> NoDebug]

ApplyValidate ==
    /\ call.stage = "called"
    /\ LET r == validate_questions_with_llm(call.questions, call.ctxs, call.resp)
       IN  call' = [call EXCEPT !.stage = "returned", !.out = r.out,
                                !.debug = r.debug]
    /\ UNCHANGED pipeVars

NextValidate == ApplyValidate

SpecValidate == InitValidate /\ [][NextValidate]_vars

(***************************************************************************)
(* verify_column_references applied on its own: every list of at most      *)
(* MaxGen + 1 questions, with and without a schema context.                *)
(***************************************************************************)
VerifyInputs ==
    BoundedSeq(QuestionUniverse \cup {QSearchGhost, QGhostTable}, MaxGen + 1)

InitVerify ==
    /\ PipelineIdle
    /\ \E qs \in VerifyInputs, ctxs \in ContextChoices :
            call = [fn |-> "verify_column_references", stage |-> "called",
                    questions |-> qs, ctxs |-> ctxs, resp |-> NoResponse,
                    out |-> <<>>, debug |-> NoDebug]

ApplyVerify ==
    /\ call.stage = "called"
    /\ call' = [call EXCEPT
                  !.stage = "returned",
                  !.out = verify_column_references(call.questions, call.ctxs)]
    /\ UNCHANGED pipeVars

NextVerify == ApplyVerify

SpecVerify == InitVerify /\ [][NextVerify]_vars

(***************************************************************************)
(* Properties of the target-question phase (specification Spec).           *)
(***************************************************************************)
TargetRoundOver == pc \notin {"idle", "validate_targets"}

\* C1: target all-or-nothing: once the validator's output of the target
\* round lacks at least one of the target questions, the call has raised
\* and has returned no list, whatever numbers the verdict holds.
C1_TargetAllOrNothing ==
    (TargetRoundOver /\ target_rejected # <<>>) => (pc = "raised" /\ result = <<>>)

\* C2: when target validation fails, the raised error names exactly the
\* target questions the validator rejected.
C2_ErrorNamesFailingTargets ==
    pc = "raised" => (raised.raised /\ raised.names = target_rejected)

\* C3: a target round that ends in a fallback branch of the validator does
\* not make the targets validated, and the run does not go on to generate.
C3_FallbackTargetsNotValidated ==
    (TargetRoundOver /\ "target" \in fallback_rounds)
        => (validated_target_questions = <<>> /\ pc = "raised")

\* the validator's parsed verdict listed every target question
AllTargetsPassed ==
    /\ target_questions_list # <<>>
    /\ rich_table_contexts # <<>>
    /\ TargetRoundOver
    /\ target_rejected = <<>>
    /\ "target" \notin fallback_rounds

\* C4: when all N target questions pass, the returned list has exactly
\* those N questions as its first N entries, for every outcome of the
\* later rounds (a generation round without candidates included).
C4_TargetsFirst ==
    (pc = "done" /\ AllTargetsPassed) =>
        LET N == Len(target_questions_list)
        IN  /\ Len(result) >= N
            /\ Elems(Texts(Prefix(result, N))) = Elems(target_questions_list)

(***************************************************************************)
(* Properties of the returned list (specification Spec).                   *)
(***************************************************************************)
\* C5: column safety: with a schema context, every analytics question of
\* the returned list that declares referenced_columns has all of them,
\* upper-cased, among the context's columns, whichever round produced it.
C5_ColumnSafety ==
    (pc = "done" /\ rich_table_contexts # <<>>) =>
        \A i \in 1..Len(result) :
            (IsAnalytics(result[i]) /\ result[i].has_cols) =>
                \A c \in Elems(result[i].referenced_columns) :
                    Upper(c) \in AllColumns(rich_table_contexts)

\* C6: the returned list never holds two questions with the same text.
C6_NoDuplicateTexts ==
    pc = "done" =>
        \A i, j \in 1..Len(result) : i # j => result[i].text # result[j].text

\* the deficit flag of the run: the question_distribution payload says that
\* the distribution check found a category short
DeficitFlag ==
    /\ session_state.question_distribution.present
    /\ session_state.question_distribution.targeted_generation_triggered

\* C7: every completed run either returns at least 3 advanced analytics
\* questions and at least 3 search questions, or carries the deficit flag.
C7_QuotaOrFlag ==
    pc = "done" =>
        \/ /\ CountAdvancedAnalytics(result) >= MIN_ADVANCED_ANALYTICS
           /\ CountCategory(result, "search") >= MIN_SEARCH
        \/ DeficitFlag

(***************************************************************************)
(* Properties of the debug payloads (specification Spec).                  *)
(***************************************************************************)
\* C8: once the validation debug payload is stored, a fallback in the
\* first or the second validation round means final_pass_rate is 0, also
\* when the first round fell back and the second validated normally.
C8_FallbackZeroPassRate ==
    (session_state.question_validation_debug.present
        /\ fallback_rounds \cap {"attempt_1", "attempt_2"} # {})
    => session_state.question_validation_debug.final_pass_rate[1] = 0

\* the validator calls whose debug record, with fallback_used = TRUE, is in
\* the session state after the run
ExposedFallbackRounds ==
    LET qvd == session_state.question_validation_debug
    IN  (IF session_state.target_question_validation_debug.fallback_used
         THEN {"target"} ELSE {})
        \cup (IF qvd.present /\ qvd.attempt_1.fallback_used
              THEN {"attempt_1"} ELSE {})
        \cup (IF qvd.present /\ qvd.attempt_2.fallback_used
              THEN {"attempt_2"} ELSE {})

\* C9: every validator call of a completed run that took a fallback branch
\* has fallback_used = TRUE in a debug record the run leaves to its caller.
C9_FallbackObservable ==
    pc = "done" => fallback_rounds \subseteq ExposedFallbackRounds

(***************************************************************************)
(* Properties of validate_questions_with_llm (specification SpecValidate). *)
(***************************************************************************)
ValidateReturned ==
    call.fn = "validate_questions_with_llm" /\ call.stage = "returned"

\* C10: with at least one analytics question and a schema context, an
\* empty response, a response that is not the expected JSON object and a
\* raising call each return all analytics questions followed by all search
\* questions with fallback_used = TRUE; a call that does not fall back
\* (a parsed object, or no service call at all) leaves fallback_used unset.
C10_ValidatorFallback ==
    ValidateReturned =>
        LET analytics_questions == SelectSeq(call.questions, NotSearch)
            search_questions == SelectSeq(call.questions, IsSearch)
            fell_back == /\ analytics_questions # <<>>
                         /\ call.ctxs # <<>>
                         /\ call.resp.kind \in FallbackKinds
        IN  /\ fell_back => /\ call.out = analytics_questions \o search_questions
                            /\ call.debug.fallback_used
            /\ ~fell_back => ~call.debug.fallback_used

\* C10 witness: an unparseable response to a list with an analytics and a
\* search question came back as the fallback
C10_Witness ==
    /\ ValidateReturned
    /\ call.resp.kind = "unparseable"
    /\ call.ctxs # <<>>
    /\ \E i, j \in 1..Len(call.questions) :
          i < j /\ IsSearch(call.questions[i]) /\ NotSearch(call.questions[j])
    /\ call.debug.fallback_used
    /\ Len(call.out) = Len(call.questions)

\* C11: in a round that does not fall back, the analytics questions of the
\* output are exactly the submitted analytics questions at the 1-indexed
\* positions the verdict lists; numbers outside 1..n select nothing, and an
\* object without listed numbers accepts no analytics question.
C11_VerdictIndexing ==
    (ValidateReturned /\ call.ctxs # <<>>
        /\ SelectSeq(call.questions, NotSearch) # <<>>
        /\ call.resp.kind \in {"verdict", "nokey"})
    => LET analytics_questions == SelectSeq(call.questions, NotSearch)
           n == Len(analytics_questions)
           listed == IF call.resp.kind = "verdict"
                     THEN Elems(call.resp.nums) \cap (1..n) ELSE {}
           accepted == SelectSeq(call.out, NotSearch)
       IN  /\ Elems(accepted) = {analytics_questions[k] : k \in listed}
           /\ listed = {} => accepted = <<>>

\* C11 witness: a verdict with an out-of-range number and the number 2
\* accepted the second of two different analytics questions only
C11_Witness ==
    /\ ValidateReturned
    /\ call.ctxs # <<>>
    /\ call.resp.kind = "verdict"
    /\ Elems(call.resp.nums) = {2, 3}
    /\ LET analytics_questions == SelectSeq(call.questions, NotSearch)
       IN  /\ Len(analytics_questions) = 2
           /\ analytics_questions[1] # analytics_questions[2]
           /\ SelectSeq(call.out, NotSearch) = <<analytics_questions[2]>>

\* C12: search auto-accept: the search questions of the output are the
\* submitted search questions, in order, on every path of the validator
\* and whatever columns they declare.
C12_SearchAutoAccept ==
    ValidateReturned =>
        SelectSeq(call.out, IsSearch) = SelectSeq(call.questions, IsSearch)

\* C12 witness: a parsed verdict rejected the analytics question and kept
\* a search question that declares a column the schema does not have
C12_Witness ==
    /\ ValidateReturned
    /\ call.ctxs # <<>>
    /\ call.resp.kind = "verdict"
    /\ call.resp.nums = <<>>
    /\ SelectSeq(call.questions, NotSearch) # <<>>
    /\ call.out = <<QSearchGhost>>

(***************************************************************************)
(* Properties of verify_column_references (specification SpecVerify).      *)
(***************************************************************************)
VerifyReturned ==
    call.fn = "verify_column_references" /\ call.stage = "returned"

\* every declared column of q is, case-insensitively, a column name of some
\* table of the schema context
DeclaredColumnsInSchema(q, ctxs) ==
    \A c \in Elems(q.referenced_columns) :
        \E t \in 1..Len(ctxs) : \E k \in 1..Len(ctxs[t].columns) :
            Upper(c) = Upper(ctxs[t].columns[k].name)

\* the output is the input with the questions outside Keep removed, the
\* others unchanged and in their order
IsFilterOf(out, in, Keep) ==
    out = SelectSeq(in, LAMBDA q : q \in Keep)

\* with a schema context the output is the filter: the questions without
\* the declaration and those whose declared columns all exist, in order
VerifyFilterWithContext ==
    (VerifyReturned /\ call.ctxs # <<>>) =>
        IsFilterOf(call.out, call.questions,
                   { q \in Elems(call.questions) :
                        (~q.has_cols) \/ DeclaredColumnsInSchema(q, call.ctxs) })

\* C13: the output is a subsequence of the input; a question without the
\* declaration is kept unchanged; one with it is kept if and only if every
\* declared column is, case-insensitively, a column of some table of the
\* schema context.
C13_VerifyFilter ==
    VerifyReturned =>
        IsFilterOf(call.out, call.questions,
                   { q \in Elems(call.questions) :
                        (~q.has_cols) \/ DeclaredColumnsInSchema(q, call.ctxs) })

\* the names of the tables of the schema context
TableNames(ctxs) == { ctxs[t].name : t \in 1..Len(ctxs) }

\* C14: with a schema context, no question of the output references a
\* table that is not a table of the context.
C14_TableSafety ==
    (VerifyReturned /\ call.ctxs # <<>>) =>
        \A i \in 1..Len(call.out) :
            Elems(call.out[i].referenced_tables) \subseteq TableNames(call.ctxs)


(***************************************************************************)
(* C15: a malformed response of the generation service never ends the run  *)
(* with an error: the round that received it hands an empty list on (the   *)
(* initial round to line 695, the second attempt to the validator), and    *)
(* the run never reaches the raised state because of it.                   *)
(***************************************************************************)
C15_MalformedGenerationIsZeroProgress ==
    /\ (pc = "validate_1" /\ "initial" \in gen_malformed) => questions = <<>>
    /\ (pc = "validate_2" /\ "attempt_2" \in gen_malformed) => new_questions = <<>>
    /\ (pc = "raised" /\ gen_malformed # {}) => raised.error = "Exception"


(***************************************************************************)
(* test_questions_against_semantic_model applied on its own: every list of *)
(* at most MaxGen + 1 questions, every semantic model info, every answer   *)
(* of the service to each analytics question.                              *)
(***************************************************************************)
SemanticInputs == BoundedSeq({QAdv, QBasic, QSearch}, MaxGen + 1)

InitSemantic ==
    /\ PipelineIdle
    /\ \E qs \in SemanticInputs, info \in SemanticInfos :
         \E answers \in AnswersFor(qs) :
            call = [fn |-> "test_questions_against_semantic_model",
                    stage |-> "called", questions |-> qs, info |-> info,
                    answers |-> answers, out |-> <<>>]

ApplySemantic ==
    /\ call.fn = "test_questions_against_semantic_model"
    /\ call.stage = "called"
    /\ call' = [call EXCEPT
                   !.stage = "returned",
                   !.out = test_questions_against_semantic_model(
                               call.questions, call.info, call.answers)]
    /\ UNCHANGED pipeVars

NextSemantic == ApplySemantic

SpecSemantic == InitSemantic /\ [][NextSemantic]_vars

SemanticReturned ==
    /\ call.fn = "test_questions_against_semantic_model"
    /\ call.stage = "returned"

(***************************************************************************)
(* C16: when the semantic model is consulted, an analytics question whose  *)
(* answer is not affirmative, or whose call raised, is in failed and not   *)
(* in answerable; an analytics question is in answerable only when the     *)
(* service answered affirmatively for it.                                  *)
(***************************************************************************)
C16_NonAffirmativeFails ==
    (SemanticReturned /\ call.info = "view") =>
        LET qs == call.questions
            yes == SelectSeq(Indices(Len(qs)),
                       LAMBDA i : IsAnalytics(qs[i]) /\ call.answers[i].affirmative)
            no == SelectSeq(Indices(Len(qs)),
                       LAMBDA i : IsAnalytics(qs[i]) /\ ~call.answers[i].affirmative)
        IN  /\ SelectSeq(call.out.answerable, IsAnalytics)
                   = [k \in 1..Len(yes) |-> qs[yes[k]]]
            /\ [k \in 1..Len(call.out.failed) |-> call.out.failed[k].question]
                   = [k \in 1..Len(no) |-> qs[no[k]].text]


(***************************************************************************)
(* C17: when the run reaches the semantic test without a deployed model    *)
(* (semantic_model_info absent, or present without a view name), the test  *)
(* results hold no answerable question, and no generated candidate is in   *)
(* the returned list.                                                      *)
(***************************************************************************)
C17_NoModelFailsAll ==
    (session_state.semantic_model_test_results.present
        /\ semantic_model_info # "view") =>
        /\ session_state.semantic_model_test_results.answerable = <<>>
        /\ pc = "done" => \A i \in 1..Len(result) : result[i].source # "ai"


(***************************************************************************)
(* The final selection and the inclusion of the target questions applied   *)
(* on their own (lines 1099-1162), with the num_questions the application  *)
(* passes.  A pool is made of blocks, one per kind of question, in any     *)
(* order of the kinds; each kind has at most MaxKindCount questions, with  *)
(* distinct texts.                                                         *)
(***************************************************************************)
NUM_QUESTIONS == 12
MaxKindCount == 6

Kinds == {"AA", "IA", "BA", "S"}

KindTexts ==
    [AA |-> <<"AA1", "AA2", "AA3", "AA4", "AA5", "AA6", "AA7", "AA8">>,
     IA |-> <<"IA1", "IA2", "IA3", "IA4", "IA5", "IA6", "IA7", "IA8">>,
     BA |-> <<"BA1", "BA2", "BA3", "BA4", "BA5", "BA6", "BA7", "BA8">>,
     S |-> <<"S1", "S2", "S3", "S4", "S5", "S6", "S7", "S8">>]

\* a validated question of the pool: generated, without referenced_columns
KindQuestion(kind, i) ==
    [Question(KindTexts[kind][i],
              CASE kind = "AA" -> "advanced"
                [] kind = "IA" -> "intermediate"
                [] OTHER -> "basic",
              IF kind = "S" THEN "search" ELSE "analytics",
              FALSE, <<>>) EXCEPT !.source = "ai"]

Block(kind, n) == [i \in 1..n |-> KindQuestion(kind, i)]

KindOrders == { o \in [1..4 -> Kinds] : \A i, j \in 1..4 : o[i] = o[j] => i = j }

PoolOf(counts, order) ==
    Block(order[1], counts[order[1]]) \o Block(order[2], counts[order[2]])
        \o Block(order[3], counts[order[3]]) \o Block(order[4], counts[order[4]])

InitSelect ==
    /\ PipelineIdle
    /\ \E counts \in [Kinds -> 0..MaxKindCount], order \in KindOrders,
          targets \in TargetLists :
            call = [fn |-> "final_selection", stage |-> "called",
                    pool |-> PoolOf(counts, order),
                    targets |-> TargetDicts(targets),
                    num_questions |-> NUM_QUESTIONS, out |-> <<>>]

ApplySelect ==
    /\ call.fn = "final_selection"
    /\ call.stage = "called"
    /\ call' = [call EXCEPT
                   !.stage = "returned",
                   !.out = IncludeTargets(call.targets,
                                          FinalSelection(call.pool, call.num_questions),
                                          call.num_questions)]
    /\ UNCHANGED pipeVars

NextSelect == ApplySelect

SpecSelect == InitSelect /\ [][NextSelect]_vars

SelectReturned == call.fn = "final_selection" /\ call.stage = "returned"

(***************************************************************************)
(* C18: when the pool has more than num_questions questions, at least 3 of *)
(* them advanced analytics and at least 3 search, the selection returns    *)
(* exactly num_questions questions, at least 3 of them advanced analytics  *)
(* and at least 3 search; it never returns more than num_questions.        *)
(***************************************************************************)
C18_SelectionMeetsQuotas ==
    SelectReturned =>
        /\ Len(call.out) <= call.num_questions
        /\ (/\ Len(call.pool) > call.num_questions
            /\ CountAdvancedAnalytics(call.pool) >= MIN_ADVANCED_ANALYTICS
            /\ CountCategory(call.pool, "search") >= MIN_SEARCH)
           => /\ Len(call.out) = call.num_questions
              /\ CountAdvancedAnalytics(call.out) >= MIN_ADVANCED_ANALYTICS
              /\ CountCategory(call.out, "search") >= MIN_SEARCH


\* the questions of one kind in a list of pool questions
KindCount(qs, kind) ==
    Len(SelectSeq(qs, LAMBDA q : \E i \in 1..Len(KindTexts[kind]) :
                                    q = KindQuestion(kind, i)))

(***************************************************************************)
(* C19: when the pool exceeds num_questions, a quota the pool meets (3     *)
(* advanced analytics, 3 search) is still met by the selected list, and    *)
(* questions are removed lowest priority first: a search question is       *)
(* removed only when no basic analytics question is kept, and an           *)
(* intermediate or advanced analytics question only when in addition no    *)
(* search question beyond the quota is kept.                               *)
(***************************************************************************)
C19_TruncationKeepsQuotas ==
    (SelectReturned /\ Len(call.pool) > call.num_questions) =>
        LET Kept(kind) == KindCount(call.out, kind)
            Removed(kind) == KindCount(call.pool, kind) - KindCount(call.out, kind)
        IN  /\ CountAdvancedAnalytics(call.pool) >= MIN_ADVANCED_ANALYTICS
                   => CountAdvancedAnalytics(call.out) >= MIN_ADVANCED_ANALYTICS
            /\ CountCategory(call.pool, "search") >= MIN_SEARCH
                   => CountCategory(call.out, "search") >= MIN_SEARCH
            /\ Removed("S") > 0 => Kept("BA") = 0
            /\ Removed("IA") + Removed("AA") > 0
                   => Kept("BA") = 0 /\ Kept("S") <= MIN_SEARCH


(***************************************************************************)
(* C20: the retry loop is bounded and terminates: retry_attempt never      *)
(* exceeds MAX_RETRIES, every step that stays in the loop consumes one     *)
(* unit of the budget, and a run that enters the loop reaches a terminal   *)
(* state (it returns or raises).                                           *)
(***************************************************************************)
TerminalState == pc \in {"done", "raised"}

\* the state at line 864, when the loop is entered: the run has a schema
\* context, up to MaxGen + 2 validated questions that passed the semantic test
\* (none without semantic model info, lines 846-859), and retry_attempt = 0.  The debug payloads of the earlier stages, which
\* the loop and the stages after it never read, are left at their idle
\* values.
LoopEntryQuestions ==
    BoundedSeq(Elems(TagSource(<<QAdv, QSearch>>)), MaxGen + 2)

LoopEntry ==
    /\ pc = "retry_loop"
    /\ target_questions_list \in TargetLists
    /\ rich_table_contexts = SchemaContext
    /\ semantic_model_info \in SemanticInfos
    /\ num_questions \in 1..MaxNumQuestions
    /\ validated_target_questions = TargetDicts(target_questions_list)
    /\ questions = <<>>
    /\ new_questions = <<>>
    /\ validated_questions \in LoopEntryQuestions
    /\ semantic_model_info = "none" => validated_questions = <<>>
    /\ validation_debug = ValidationDebug0
    /\ retry_attempt = 0
    /\ missing = NoMissing
    /\ session_state = SessionState0
    /\ error_log = 0
    /\ st_error = <<>>
    /\ result = <<>>
    /\ raised = NoError
    /\ target_rejected = <<>>
    /\ fallback_rounds = {}
    /\ gen_malformed = {}
    /\ gen_requests = {[round |-> "initial", is_retry |-> FALSE,
                        existing_questions |-> <<>>]}
    /\ rejected_texts = {}

InitRetry == LoopEntry /\ call = NoCall

NextRetry ==
    \/ RetryRound
    \/ LoopExit
    \/ TargetedRound

SpecRetry == InitRetry /\ [][NextRetry]_vars

\* the loop and the stages after it are steps of one thread: a run that
\* can take a step does take one
FairRetry == SpecRetry /\ WF_vars(NextRetry)

C20_RetryLoopBounded ==
    /\ [](retry_attempt <= MAX_RETRIES)
    /\ [][(pc = "retry_loop" /\ pc' = "retry_loop")
            => retry_attempt' = retry_attempt + 1]_vars
    /\ (pc = "retry_loop") ~> TerminalState

\* a run that used the whole budget and returned
C20_Witness == pc = "done" /\ retry_attempt = MAX_RETRIES


(***************************************************************************)
(* C21: retry exhaustion is not fatal.  A run that consumed all            *)
(* MAX_RETRIES rounds never raises; once it has ended it has returned, the *)
(* question_distribution payload carries the deficit flag, every returned  *)
(* question is an accumulated one or a target question, and when the       *)
(* accumulated pool and the targets fit in num_questions all of them are   *)
(* returned.                                                               *)
(***************************************************************************)
RetriesExhausted == retry_attempt = MAX_RETRIES

MAX_CHAINS == 3
MAX_WORKERS == 4

\* primary_questions of lines 2269-2272
PrimaryQuestions(qs, max_chains) ==
    Prefix(SelectSeq(qs,
                     LAMBDA q : q.difficulty \in {"basic", "intermediate"}),
           max_chains)

ChainInputs == BoundedSeq({QAdv, QBasic, QSearch}, MaxGen + 1)

\* what one follow-up call can come back with: an array, a text without an
\* array, an exception
FollowUpResponses == {"array", "noarray", "raises"}

\* generate_follow_up_questions: the follow-ups, or [] on any failure
generate_follow_up_questions(primary_question, resp) ==
    IF resp = "array" THEN <<"follow-up">> ELSE <<>>

InitChains ==
    /\ PipelineIdle
    /\ \E qs \in ChainInputs :
        LET primary_questions == PrimaryQuestions(qs, MAX_CHAINS)
        IN  call = [fn |-> "create_question_chains", stage |-> "running",
                    primary |-> Texts(primary_questions),
                    max_workers |-> Min(MAX_WORKERS, Len(primary_questions)),
                    next |-> 1,
                    in_flight |-> [w \in 1..MAX_WORKERS |-> 0],
                    follow_ups |-> [i \in 1..Len(primary_questions) |-> <<"pending">>],
                    chains |-> {}]

ChainsRunning == call.fn = "create_question_chains" /\ call.stage = "running"

\* an idle worker of the pool takes the next argument list and issues the
\* service call of lines 2314-2317 on the shared session
WorkerStart(w) ==
    /\ ChainsRunning
    /\ w <= call.max_workers
    /\ call.in_flight[w] = 0
    /\ call.next <= Len(call.primary)
    /\ call' = [call EXCEPT !.in_flight[w] = call.next, !.next = call.next + 1]
    /\ UNCHANGED pipeVars

\* the call of a worker comes back (lines 2319-2328) and the result is stored
WorkerFinish(w) ==
    /\ ChainsRunning
    /\ call.in_flight[w] # 0
    /\ \E resp \in FollowUpResponses :
        call' = [call EXCEPT
                   !.in_flight[w] = 0,
                   !.follow_ups[call.in_flight[w]] =
                       generate_follow_up_questions(
                           call.primary[call.in_flight[w]], resp)]
    /\ UNCHANGED pipeVars

\* lines 2288-2293: every result is in; the chains are built and returned
ChainsReturn ==
    /\ ChainsRunning
    /\ call.next > Len(call.primary)
    /\ \A w \in 1..MAX_WORKERS : call.in_flight[w] = 0
    /\ call' = [call EXCEPT
                   !.stage = "returned",
                   !.chains = { call.primary[i] : i \in
                                  { j \in 1..Len(call.primary) :
                                      call.follow_ups[j] # <<>> } }]
    /\ UNCHANGED pipeVars

NextChains ==
    \/ \E w \in 1..MAX_WORKERS : WorkerStart(w)
    \/ \E w \in 1..MAX_WORKERS : WorkerFinish(w)
    \/ ChainsReturn

SpecChains == InitChains /\ [][NextChains]_vars

\* the calls in flight on the session
InFlight ==
    IF call.fn = "create_question_chains"
    THEN { w \in 1..MAX_WORKERS : call.in_flight[w] # 0 }
    ELSE {}

(***************************************************************************)
(* C22: the calls to the text-generation service made through one session  *)
(* are serialized: at no time are two of them in flight, follow-up         *)
(* generation in create_question_chains included.                          *)
(***************************************************************************)
C22_CallsSerialized == Cardinality(InFlight) <= 1


(***************************************************************************)
(* Consecutive runs.  The application calls generate_contextual_questions  *)
(* again in the same Streamlit session (SI_Generator.py 1089-1148):        *)
(* st.session_state is the one object of the session and outlives the      *)
(* call, as does the error handler's log; the arguments, the locals and    *)
(* the result of the call are new.  A second run is explored after the     *)
(* first runs of FirstRunOver.                                             *)
(***************************************************************************)
\* the first runs after which a second one is explored: one question asked
\* for, no target questions, a deployed semantic view, no fallback and no
\* second attempt; the validator accepted two questions, the semantic test
\* failed the analytics one, and the targeted round added nothing
FirstRunOver ==
    /\ pc = "done"
    /\ error_log <= MAX_RETRIES
    /\ target_questions_list = <<>>
    /\ num_questions = 1
    /\ semantic_model_info = "view"
    /\ fallback_rounds = {}
    /\ gen_malformed = {"targeted"}
    /\ ~session_state.question_validation_debug.attempt_2.present
    /\ session_state.question_validation_debug.attempt_1.total_questions = 2
    /\ session_state.question_validation_debug.attempt_1.validated_count = 2
    /\ session_state.semantic_model_test_results.failed =
           <<[question |-> "A", reason |-> "cannot generate SQL"]>>
    /\ session_state.semantic_test_filtered.present
    /\ session_state.question_distribution.targeted_result =
           "Targeted question generation failed"
    /\ result = TagSource(<<QSearch>>)

NewRun ==
    /\ FirstRunOver
    /\ pc' = "idle"
    /\ target_questions_list' = <<>>
    /\ rich_table_contexts' = <<>>
    /\ semantic_model_info' = "none"
    /\ num_questions' = 1
    /\ validated_target_questions' = <<>>
    /\ questions' = <<>>
    /\ new_questions' = <<>>
    /\ validated_questions' = <<>>
    /\ validation_debug' = ValidationDebug0
    /\ retry_attempt' = 0
    /\ missing' = NoMissing
    /\ st_error' = <<>>
    /\ result' = <<>>
    /\ raised' = NoError
    /\ target_rejected' = <<>>
    /\ fallback_rounds' = {}
    /\ gen_malformed' = {}
    /\ gen_requests' = {}
    /\ rejected_texts' = {}
    /\ UNCHANGED <<session_state, error_log, call>>

NextRuns ==
    \/ Next
    \/ NewRun

SpecRuns == Init /\ [][NextRuns]_vars

(***************************************************************************)
(* C23: no state crosses runs.  After a run has ended, a debug record the  *)
(* run did not write is absent: a run that never reached its validation    *)
(* shows no validation debug, no semantic test results, no filter counts   *)
(* and no distribution; a run without validated target questions shows no  *)
(* target-validation debug; filter counts are shown only together with     *)
(* failed questions in the semantic test results.                          *)
(***************************************************************************)
C23_NoStateAcrossRuns ==
    TerminalState =>
        /\ ~validation_debug.attempt_1.present =>
              /\ ~session_state.question_validation_debug.present
              /\ ~session_state.semantic_model_test_results.present
              /\ ~session_state.semantic_test_filtered.present
              /\ ~session_state.question_distribution.present
        /\ validated_target_questions = <<>> =>
              ~session_state.target_question_validation_debug.present
        /\ session_state.semantic_test_filtered.present =>
              session_state.semantic_model_test_results.failed # <<>>


(***************************************************************************)
(* The retry loop against a generation service whose answer is known: the  *)
(* record call holds what the service returns to every generation request  *)
(* of the loop (lines 924-928); for an array, the validation service and   *)
(* the semantic test accept every question of it.                          *)
(***************************************************************************)
RetryServices ==
    { [fn |-> "retry_service", resp |-> [kind |-> k, items |-> <<>>]] :
        k \in GenFailureKinds } \cup
    { [fn |-> "retry_service", resp |-> [kind |-> "array", items |-> qs]] :
        qs \in BoundedSeq({QAdv, QSearch}, MaxGen) \ {<<>>} }

InitRetryService == LoopEntry /\ call \in RetryServices

SpecRetryService == InitRetryService /\ [][NextRetry]_vars

\* a step that stays in the loop: one retry round
RetryRoundStep == pc = "retry_loop" /\ pc' = "retry_loop"

(***************************************************************************)
(* C24: in a retry round in which the generation service returns a         *)
(* well-formed array and the validator and the semantic test accept its    *)
(* questions, the questions are added to the accumulated pool.             *)
(***************************************************************************)
C24_RetryAccumulates ==
    [][(RetryRoundStep /\ call.fn = "retry_service" /\ call.resp.kind = "array")
          => validated_questions' = validated_questions \o TagSource(call.resp.items)]_vars


(***************************************************************************)
(* C25: the initial generation round is issued with is_retry = False and   *)
(* an empty existing_questions; every later generation round (the second   *)
(* attempt, a retry-loop round, the targeted gap-filling round) is issued  *)
(* with is_retry = True and with the questions accepted so far as          *)
(* existing_questions.                                                     *)
(***************************************************************************)
C25_LaterRoundsConservative ==
    [][\A r \in gen_requests' \ gen_requests :
          IF r.round = "initial"
          THEN ~r.is_retry /\ r.existing_questions = <<>>
          ELSE r.is_retry /\ r.existing_questions = validated_questions]_vars

\* the rounds after the first validation, the semantic test set aside
BetweenRounds == pc \in {"generate_2", "validate_2", "retry_loop", "targeted_round"}

\* every question of the pool is still in the pool after the step
PoolKept == \A q \in Elems(validated_questions) : q \in Elems(validated_questions')

(***************************************************************************)
(* C26: accumulation is additive: between rounds a question accepted by    *)
(* the validator stays in the accumulated pool, and no question whose text *)
(* the validator rejected in an earlier round of the run is submitted to   *)
(* the validator again (after the second generation) or joins the pool.    *)
(***************************************************************************)
C26_AccumulationAdditive ==
    [][/\ BetweenRounds => PoolKept
       /\ pc' = "validate_2" => Elems(Texts(new_questions')) \cap rejected_texts' = {}
       /\ Elems(Texts(validated_questions')) \cap rejected_texts = {}]_vars

\* the questions of the returned list that a generation round produced and
\* that are analytics questions
GeneratedAnalytics(qs) ==
    {q \in Elems(qs) : q.source = "ai" /\ IsAnalytics(q)}

(***************************************************************************)
(* C27: every generated analytics question of the returned list was given  *)
(* to the semantic test and is in the answerable list the test stored, the *)
(* questions of the targeted gap-filling round included.                   *)
(***************************************************************************)
C27_SemanticTestIsLastGate ==
    pc = "done" =>
        \A q \in GeneratedAnalytics(result) :
            /\ session_state.semantic_model_test_results.present
            /\ q \in Elems(session_state.semantic_model_test_results.answerable)

(***************************************************************************)
(* C28: a call that returns questions has stored the debug payload of a    *)
(* validation round, and a call with target questions that returns has     *)
(* stored the payload of the validation of the target questions.           *)
(***************************************************************************)
C28_NothingReturnedUnvalidated ==
    pc = "done" =>
        /\ result # <<>> => session_state.question_validation_debug.present
        /\ target_questions_list # <<>> =>
               session_state.target_question_validation_debug.present

\* how many positions of the list hold the element
Occurrences(list, x) == Cardinality({i \in 1..Len(list) : list[i] = x})

(***************************************************************************)
(* C29: the validator's output is a sub-collection of its input: it is not *)
(* longer than the input and holds every question at most as often as the  *)
(* input does, whatever the service answers.                               *)
(***************************************************************************)
C29_OutputWithinInput ==
    ValidateReturned =>
        /\ Len(call.out) <= Len(call.questions)
        /\ \A q \in Elems(call.out) :
               Occurrences(call.out, q) <= Occurrences(call.questions, q)

(***************************************************************************)
(* select_best_questions applied on its own: every pool of pairwise        *)
(* different questions with up to MaxPoolKind questions of each kind, the  *)
(* kinds in every order, every target_count in 1..MaxTargetCount and every *)
(* min_advanced in 0..MaxMinAdvanced.                                      *)
(***************************************************************************)
MaxPoolKind == 2
MaxTargetCount == 4
MaxMinAdvanced == 3

InitSelectBest ==
    /\ PipelineIdle
    /\ \E counts \in [Kinds -> 0..MaxPoolKind], order \in KindOrders,
          target_count \in 1..MaxTargetCount, min_advanced \in 0..MaxMinAdvanced :
            call = [fn |-> "select_best_questions", stage |-> "called",
                    questions |-> PoolOf(counts, order),
                    target_count |-> target_count,
                    min_advanced |-> min_advanced, out |-> <<>>]

ApplySelectBest ==
    /\ call.fn = "select_best_questions"
    /\ call.stage = "called"
    /\ call' = [call EXCEPT
                   !.stage = "returned",
                   !.out = select_best_questions(call.questions, call.target_count,
                                                 call.min_advanced)]
    /\ UNCHANGED pipeVars

NextSelectBest == ApplySelectBest

SpecSelectBest == InitSelectBest /\ [][NextSelectBest]_vars

SelectBestReturned == call.fn = "select_best_questions" /\ call.stage = "returned"

(***************************************************************************)
(* C30: select_best_questions returns every question of the pool at most   *)
(* as often as the pool holds it, also when intermediate questions fill    *)
(* the advanced slots, and returns a pool of at most target_count          *)
(* questions unchanged.                                                    *)
(***************************************************************************)
C30_NoDoubleSelection ==
    SelectBestReturned =>
        /\ \A q \in Elems(call.out) :
               Occurrences(call.out, q) <= Occurrences(call.questions, q)
        /\ Len(call.questions) <= call.target_count => call.out = call.questions

====
